---- MODULE Spec2Model ----
(***************************************************************************)
(* Contacts-management backend: registration, e-mail verification, JWT     *)
(* login, role checks and the contacts repository.  Request handlers are   *)
(* atomic actions (one request at a time); the token functions, the        *)
(* search filter and the birthday window are operators computed as the     *)
(* code computes them.                                                     *)
(***************************************************************************)
EXTENDS Integers, Sequences, FiniteSets, TLC

VARIABLES
    users,          \* rows of the users table
    contacts,       \* rows of the contacts table
    nextUserId,     \* autoincrement of users.id
    nextContactId,  \* autoincrement of contacts.id
    now,            \* wall clock, in seconds
    outbox,         \* verification mails scheduled as background tasks
    session,        \* token pair returned by the last successful login
    verifiedOk,     \* history: e-mails for which verify-email answered 200
    resp,           \* answer to the last request
    call,           \* function call under evaluation (function-level specifications)
    ret,            \* what that call returned
    roles,          \* roles table: role name -> id of the row with that name
    instances,      \* number of RoleRepository objects constructed so far
    lru_cache,      \* entries of get_role_by_name's lru_cache
    pc              \* position and locals of each request running concurrently

\* the role lookup's state
roleVars == <<roles, instances, lru_cache>>

vars == <<users, contacts, nextUserId, nextContactId, now, outbox, session,
          verifiedOk, resp, call, ret, roleVars, pc>>

\* the state of the service, left alone by the function-level specifications
appVars == <<users, contacts, nextUserId, nextContactId, now, outbox, session,
             verifiedOk, resp, roleVars, pc>>

\* ------------------------------------------------------------ bounds, inputs
\* requests that can be in progress at the same time; none is at first
Requests == {1, 2}
Idle == [r \in Requests |-> [op |-> "None", at |-> "idle"]]

\* contacts ever created (the largest contacts.id handed out)
MaxContacts == 2

Emails == {"a@x", "b@x"}
Usernames == {"u1"}
Passwords == {"pw1"}
RoleEnum == {"user", "admin"}

\* Python's None where the value is otherwise a string
None == "None"

\* ------------------------------------------------------------ token service
SECRET_KEY == "secret"
OtherKey == "otherkey"
ACCESS_TOKEN_EXPIRE_MINUTES == 30
REFRESH_TOKEN_EXPIRE_DAYS == 7
VERIFICATION_TOKEN_HOUSE == 24

Minutes(n) == n * 60
Hours(n) == n * 3600
Days(n) == n * 86400

\* Instants at which the clock is sampled: issue time, just past the access
\* lifetime, just past the verification lifetime, just past the refresh lifetime.
Instants == {0, Minutes(ACCESS_TOKEN_EXPIRE_MINUTES) + 1,
             Hours(VERIFICATION_TOKEN_HOUSE) + 1,
             Days(REFRESH_TOKEN_EXPIRE_DAYS) + 1}

\* jwt.encode: a compact JWS over the claims, signed with key.  The claims are
\* exactly "sub" and "exp"; nothing in them tells the token classes apart.
JwtEncode(sub, exp, key) == [wf |-> TRUE, key |-> key, sub |-> sub, exp |-> exp]

\* A string that is no JWS at all ("invalid_token").
MalformedToken == [wf |-> FALSE, key |-> None, sub |-> None, exp |-> 0]

\* jwt.decode(token, SECRET_KEY, algorithms=[ALGORITHM]) at time t: the claims,
\* or the exception class raised (all are JWTError or subclasses of it).
JwtDecode(token, key, t) ==
    IF ~token.wf THEN [exc |-> "JWTError", sub |-> None]
    ELSE IF token.key # key THEN [exc |-> "JWTError", sub |-> None]
    ELSE IF token.exp < t THEN [exc |-> "ExpiredSignatureError", sub |-> None]
    ELSE [exc |-> None, sub |-> token.sub]

\* except JWTError: the classes the handler catches
JWTErrorClasses == {"JWTError", "ExpiredSignatureError", "JWTClaimsError"}

\* variant: "except ExpiredSignatureError" in place of "except JWTError"
CaughtExpiredOnly(exc) == exc = "ExpiredSignatureError"

CaughtAsJWTError(exc) == exc \in JWTErrorClasses

\* A timedelta argument is <<>> (None) or <<seconds>>; "if expires_delta:" is
\* false for None and for timedelta(0).
NoDelta == <<>>
Truthy(delta) == delta # NoDelta /\ delta[1] # 0

\* variant: the verification lifetime is taken in minutes
create_verification_token_minutes(email, t) ==
    JwtEncode(email, t + Minutes(VERIFICATION_TOKEN_HOUSE), SECRET_KEY)

create_verification_token(email, t) ==
    JwtEncode(email, t + Hours(VERIFICATION_TOKEN_HOUSE), SECRET_KEY)

\* variant: the claims are built from the expiry alone and data is dropped
create_access_token_without_data(sub, expires_delta, t) ==
    LET expire == IF Truthy(expires_delta)
                  THEN t + expires_delta[1]
                  ELSE t + Minutes(ACCESS_TOKEN_EXPIRE_MINUTES)
    IN JwtEncode(None, expire, SECRET_KEY)

create_access_token(sub, expires_delta, t) ==
    LET expire == IF Truthy(expires_delta)
                  THEN t + expires_delta[1]
                  ELSE t + Minutes(ACCESS_TOKEN_EXPIRE_MINUTES)
    IN JwtEncode(sub, expire, SECRET_KEY)

\* variant: the refresh token is made without the caller's data
create_refresh_token_without_data(sub, expires_delta, t) ==
    JwtEncode(None,
              IF Truthy(expires_delta) THEN t + expires_delta[1]
              ELSE t + Days(REFRESH_TOKEN_EXPIRE_DAYS),
              SECRET_KEY)

create_refresh_token(sub, expires_delta, t) ==
    LET expire == IF Truthy(expires_delta)
                  THEN t + expires_delta[1]
                  ELSE t + Days(REFRESH_TOKEN_EXPIRE_DAYS)
    IN JwtEncode(sub, expire, SECRET_KEY)

\* Result of a decode function: the value returned, or raised = TRUE when an
\* exception leaves the function.
Returned(v) == [raised |-> FALSE, value |-> v]
Raised == [raised |-> TRUE, value |-> None]

decode_verification_token(token, t) ==
    LET payload == JwtDecode(token, SECRET_KEY, t) IN
    IF payload.exc # None
    THEN IF CaughtAsJWTError(payload.exc) THEN Returned(None) ELSE Raised
    ELSE IF payload.sub = None THEN Returned(None) ELSE Returned(payload.sub)

decode_access_token(token, t) ==
    LET payload == JwtDecode(token, SECRET_KEY, t) IN
    IF payload.exc # None
    THEN IF CaughtAsJWTError(payload.exc) THEN Returned(None) ELSE Raised
    ELSE IF payload.sub = None THEN Returned(None) ELSE Returned(payload.sub)

\* ------------------------------------------------------------ passwords
get_password_hash(password) == <<"bcrypt", password>>
verify_password(password, hashed_password) == hashed_password = <<"bcrypt", password>>

\* ------------------------------------------------------------ roles, users
\* roles table (static reference data)
RoleId(name) == IF name = "user" THEN 1 ELSE 2
RoleName(id) == IF id = 1 THEN "user" ELSE "admin"

\* UserRepository.get_user_by_email: scalar_one_or_none
UsersByEmail(us, email) == {u \in us : u.email = email}
\* variant: the lookup goes by username (get_user) instead of by e-mail
HasUserNamed(us, email) == \E u \in us : u.username = email

HasUser(us, email) == UsersByEmail(us, email) # {}
get_user_by_email(us, email) == CHOOSE u \in UsersByEmail(us, email) : TRUE

\* variant: the row is stored already active
NewActiveUser(id, username, email, password, role) ==
    [id |-> id, username |-> username, email |-> email,
     hashed_password |-> <<"bcrypt", password>>,
     role_id |-> IF role = "user" THEN 1 ELSE 2, is_active |-> TRUE,
     avatar |-> None]

NewUser(id, username, email, password, role) ==
    [id |-> id, username |-> username, email |-> email,
     hashed_password |-> get_password_hash(password),
     role_id |-> RoleId(role), is_active |-> FALSE, avatar |-> None]

\* UserRepository.create_user: add, commit, refresh
create_user(us, id, username, email, password, role) ==
    us \cup {NewUser(id, username, email, password, role)}

\* variant: every stored user is activated
activate_user_all(us, user) == {[u EXCEPT !.is_active = TRUE] : u \in us}

\* UserRepository.activate_user
activate_user(us, user) ==
    (us \ {user}) \cup {[user EXCEPT !.is_active = TRUE]}

\* the roles table as seeded: 'user' is row 1, 'admin' row 2
InitialRoles == [name \in RoleEnum |-> RoleId(name)]

\* avatar URLs returned by the image host
AvatarUrls == {"https://img/1"}

\* variant: the avatar is written to every user
update_avatar_everyone(us, email, url) ==
    IF UsersByEmail(us, email) = {}
    THEN [raised |-> "HTTPException", value |-> {}, users |-> us, commits |-> 0]
    ELSE [raised |-> None,
          value |-> {[u EXCEPT !.avatar = url] : u \in UsersByEmail(us, email)},
          users |-> {[u EXCEPT !.avatar = url] : u \in us}, commits |-> 1]

\* UserRepository.update_avatar: the exception raised (or None), the user
\* returned, the table afterwards and the number of session.commit() calls
update_avatar(us, email, url) ==
    IF UsersByEmail(us, email) = {}
    THEN [raised |-> "HTTPException", value |-> {}, users |-> us, commits |-> 0]
    ELSE LET user == get_user_by_email(us, email)
             updated == [user EXCEPT !.avatar = url]
         IN [raised |-> None, value |-> {updated},
             users |-> (us \ {user}) \cup {updated}, commits |-> 1]

\* ------------------------------------------------------------ responses
Resp(op, status, detail, body) ==
    [op |-> op, status |-> status, detail |-> detail, body |-> body]

NoResp == Resp(None, 0, None, {})

NoCall == [fn |-> None]
NoRet == [fn |-> None]

\* variant: a token whose subject matches no user is told apart (404)
get_current_user_telling(us, token, t) ==
    LET token_data == decode_access_token(token, t) IN
    IF token_data.raised THEN [status |-> 500, user |-> {}]
    ELSE IF token_data.value = None THEN [status |-> 401, user |-> {}]
    ELSE IF ~HasUser(us, token_data.value) THEN [status |-> 404, user |-> {}]
    ELSE [status |-> 200, user |-> {get_user_by_email(us, token_data.value)}]

\* variant: a user who is not active is turned away (401)
get_current_user_active_only(us, token, t) ==
    LET token_data == decode_access_token(token, t) IN
    IF token_data.raised THEN [status |-> 500, user |-> {}]
    ELSE IF token_data.value = None THEN [status |-> 401, user |-> {}]
    ELSE IF ~HasUser(us, token_data.value) THEN [status |-> 401, user |-> {}]
    ELSE IF ~get_user_by_email(us, token_data.value).is_active
    THEN [status |-> 401, user |-> {}]
    ELSE [status |-> 200, user |-> {get_user_by_email(us, token_data.value)}]

\* get_current_user: status 200 with the user, 401 (credentials_exception), or
\* 500 when an exception of the decode path reaches the framework.
get_current_user(us, token, t) ==
    LET token_data == decode_access_token(token, t) IN
    IF token_data.raised THEN [status |-> 500, user |-> {}]
    ELSE IF token_data.value = None THEN [status |-> 401, user |-> {}]
    ELSE IF ~HasUser(us, token_data.value) THEN [status |-> 401, user |-> {}]
    ELSE [status |-> 200, user |-> {get_user_by_email(us, token_data.value)}]

\* variant: the membership test is inverted ("in" for "not in")
RoleAllowedInverted(user, allowed_roles) ==
    (IF user.role_id = 1 THEN "user" ELSE "admin") \notin allowed_roles

\* "user.role.name not in [role.value for role in self.allowed_roles]"
RoleAllowed(user, allowed_roles) == RoleName(user.role_id) \in allowed_roles

\* RoleChecker.__call__: get_current_user, then 403 unless the role is allowed
RoleChecker(us, token, t, allowed_roles) ==
    LET r == get_current_user(us, token, t) IN
    IF r.status # 200 THEN r
    ELSE IF \E u \in r.user : ~RoleAllowed(u, allowed_roles)
         THEN [status |-> 403, user |-> {}]
         ELSE r

\* The HTTP answer of a failed dependency
DependencyError(op, status) ==
    IF status = 401 THEN Resp(op, 401, "Could not validate credentials", {})
    ELSE IF status = 403
         THEN Resp(op, 403, "You are not authorized to access this resource", {})
         ELSE Resp(op, 500, "Internal Server Error", {})

\* ------------------------------------------------------------ contacts
ContactEmails == {"c1@x", "c2@x"}
FirstNames == {"Ann"}
LastNames == {"Lee"}

Date(y, m, d) == [y |-> y, m |-> m, d |-> d]

\* request bodies of POST /contacts/ in the main specification
ContactsCreate ==
    [first_name : FirstNames, last_name : LastNames, email : ContactEmails,
     phone_number : {"123"}, birthday : {Date(1990, 1, 1)},
     additional_info : {None}]

NewContact(id, contact, owner_id) ==
    [id |-> id, owner_id |-> owner_id, first_name |-> contact.first_name,
     last_name |-> contact.last_name, email |-> contact.email,
     phone_number |-> contact.phone_number, birthday |-> contact.birthday,
     additional_info |-> contact.additional_info]

\* unique constraint on contacts.email: the INSERT is refused
EmailTaken(cs, email) == \E c \in cs : c.email = email

\* ContactsRepository.get_contacts / get_contacts_all (limit 10, offset 0)
get_contacts(cs, owner_id) == {c \in cs : c.owner_id = owner_id}
get_contacts_all(cs) == cs

\* ContactsRepository.get_contact_by_id
HasContact(cs, contact_id) == \E c \in cs : c.id = contact_id

\* variant: the delete statement has no WHERE on the id
delete_contact_all(cs, contact_id) == {c \in cs : c.id # c.id}

\* ContactsRepository.delete_contact
delete_contact(cs, contact_id) == {c \in cs : c.id # contact_id}

\* identifier strings a client puts in PUT /contacts/{identifier}
Identifiers == {"1", "2", "02", "Ann", "Ann Lee", "c1@x", "c2@x", "Bob"}

\* int(identifier): the integer a decimal literal denotes ("02" is 2), or
\* ValueError for an identifier that is no integer literal
IntLiterals == {<<"1", 1>>, <<"2", 2>>, <<"02", 2>>, <<"3", 3>>, <<"4", 4>>}
int(identifier) ==
    IF \E p \in IntLiterals : p[1] = identifier
    THEN [ValueError |-> FALSE,
          value |-> (CHOOSE p \in IntLiterals : p[1] = identifier)[2]]
    ELSE [ValueError |-> TRUE, value |-> 0]

\* Contact.first_name + " " + Contact.last_name
FullName(c) == c.first_name \o " " \o c.last_name

\* variant: the query is not scoped to the owner
FindContactRowsOfAnyone(cs, owner_id, identifier) ==
    {c \in cs : \/ (~int(identifier).ValueError
                     /\ c.id = int(identifier).value)
                 \/ c.email = identifier
                 \/ c.first_name = identifier
                 \/ c.first_name \o " " \o c.last_name = identifier}

\* the rows selected by find_contact's query: the owner's contacts matching
\* one of the OR-ed conditions (Contact.id == None matches no row)
FindContactRows(cs, owner_id, identifier) ==
    LET contact_id == int(identifier) IN
    {c \in cs : /\ c.owner_id = owner_id
                 /\ \/ ~contact_id.ValueError /\ c.id = contact_id.value
                    \/ c.email = identifier
                    \/ c.first_name = identifier
                    \/ FullName(c) = identifier}

\* Result.scalar_one_or_none(): the row, None, or MultipleResultsFound
scalar_one_or_none(rows) ==
    IF Cardinality(rows) > 1
    THEN [raised |-> "MultipleResultsFound", value |-> {}]
    ELSE [raised |-> None, value |-> rows]

\* ContactsRepository.find_contact; value is the set holding the contact
\* found, or the empty set for None
find_contact(cs, owner_id, identifier) ==
    scalar_one_or_none(FindContactRows(cs, owner_id, identifier))

\* request bodies of PUT /contacts/{identifier}; every field is set
ContactsUpdate ==
    [first_name : FirstNames \cup {"2"}, last_name : LastNames,
     email : ContactEmails, phone_number : {"123"},
     birthday : {Date(1990, 1, 1)}, additional_info : {None}]

\* update_contact's check: the e-mail is held by a contact other than the
\* one being updated
EmailInUseNever(cs, contact, email) == FALSE
\* variant: the contact being updated counts as a holder too
EmailInUseByAnyone(cs, contact, email) == \E c \in cs : c.email = email

EmailInUse(cs, contact, email) ==
    LET existing_contact == scalar_one_or_none({c \in cs : c.email = email})
    IN \E e \in existing_contact.value : e.id # contact.id

\* update(Contact).where(Contact.id == contact.id).values(model_dump(...))
UpdatedContactReowned(contact, contact_update) ==
    [id |-> contact.id, owner_id |-> 3 - contact.owner_id,
     first_name |-> contact_update.first_name,
     last_name |-> contact_update.last_name,
     email |-> contact_update.email,
     phone_number |-> contact_update.phone_number,
     birthday |-> contact_update.birthday,
     additional_info |-> contact_update.additional_info]

UpdatedContact(contact, contact_update) ==
    [id |-> contact.id, owner_id |-> contact.owner_id,
     first_name |-> contact_update.first_name,
     last_name |-> contact_update.last_name,
     email |-> contact_update.email,
     phone_number |-> contact_update.phone_number,
     birthday |-> contact_update.birthday,
     additional_info |-> contact_update.additional_info]

\* ContactsRepository.update_contact: the exception raised (or None), the
\* contact returned (empty set for None), the table afterwards, and the
\* number of session.commit() calls made
update_contact(cs, identifier, owner_id, contact_update) ==
    LET found == find_contact(cs, owner_id, identifier) IN
    IF found.raised # None
    THEN [raised |-> found.raised, value |-> {}, contacts |-> cs, commits |-> 0]
    ELSE IF found.value = {}
    THEN [raised |-> None, value |-> {}, contacts |-> cs, commits |-> 0]
    ELSE LET contact == CHOOSE c \in found.value : TRUE IN
         IF /\ contact_update.email # ""
            /\ scalar_one_or_none(
                   {c \in cs : c.email = contact_update.email}).raised # None
         THEN [raised |-> "MultipleResultsFound", value |-> {}, contacts |-> cs,
               commits |-> 0]
         ELSE IF /\ contact_update.email # ""
                 /\ EmailInUse(cs, contact, contact_update.email)
         THEN [raised |-> "ValueError", value |-> {}, contacts |-> cs,
               commits |-> 0]
         ELSE LET updated_contact == UpdatedContact(contact, contact_update)
              IN [raised |-> None, value |-> {updated_contact},
                  contacts |-> (cs \ {contact}) \cup {updated_contact},
                  commits |-> 1]

\* ------------------------------------------------------------ clients
Issued(cls, token) == [cls |-> cls, token |-> token]

\* every token the service has handed out and a client may still hold
IssuedTokens == {Issued("verification", m.token) : m \in outbox} \cup session

ForgedTokens == {JwtEncode(e, Days(365), OtherKey) : e \in Emails}

\* tokens a request may carry
Presentable == {i.token : i \in IssuedTokens} \cup ForgedTokens \cup {MalformedToken}

\* ------------------------------------------------------------ state machine
Init ==
    /\ users = {}
    /\ contacts = {}
    /\ nextUserId = 1
    /\ nextContactId = 1
    /\ now = 0
    /\ outbox = {}
    /\ session = {}
    /\ verifiedOk = {}
    /\ resp = NoResp
    /\ call = NoCall
    /\ ret = NoRet
    /\ roles = InitialRoles
    /\ instances = 0
    /\ lru_cache = {}
    /\ pc = Idle

\* time passes
Tick ==
    /\ \E t \in Instants : t > now /\ now' = t
    /\ UNCHANGED <<users, contacts, nextUserId, nextContactId, outbox, session,
                   verifiedOk, resp, call, ret>>
    /\ UNCHANGED <<roleVars, pc>>

\* POST /auth/register
RegisterReq(email, username, password, role) ==
    /\ UNCHANGED <<call, ret, roleVars, pc>>
    /\ IF HasUser(users, email)
       THEN /\ resp' = Resp("register", 409, "Email already registered", {})
            /\ UNCHANGED <<users, contacts, nextUserId, nextContactId, now,
                           outbox, session, verifiedOk>>
       ELSE /\ users' = create_user(users, nextUserId, username, email,
                                    password, role)
            /\ nextUserId' = nextUserId + 1
            /\ outbox' = outbox \cup
                   {[to |-> email, token |-> create_verification_token(email, now)]}
            /\ resp' = Resp("register", 201, None, {email})
            /\ UNCHANGED <<contacts, nextContactId, now, session, verifiedOk>>

Register ==
    \E email \in Emails, username \in Usernames, password \in Passwords,
       role \in RoleEnum : RegisterReq(email, username, password, role)

\* GET /auth/verify-email?token=
VerifyEmailReq(token) ==
    /\ UNCHANGED <<call, ret, roleVars, pc>>
    /\ LET email == decode_verification_token(token, now) IN
       IF email.raised
       THEN /\ resp' = Resp("verify_email", 500, "Internal Server Error", {})
            /\ UNCHANGED <<users, contacts, nextUserId, nextContactId, now,
                           outbox, session, verifiedOk>>
       ELSE IF ~HasUser(users, email.value)
       THEN /\ resp' = Resp("verify_email", 404, "User not found", {})
            /\ UNCHANGED <<users, contacts, nextUserId, nextContactId, now,
                           outbox, session, verifiedOk>>
       ELSE /\ users' = activate_user(users, get_user_by_email(users, email.value))
            /\ verifiedOk' = verifiedOk \cup {email.value}
            /\ resp' = Resp("verify_email", 200, "Email verified successfully",
                            {token})
            /\ UNCHANGED <<contacts, nextUserId, nextContactId, now, outbox,
                           session>>

VerifyEmail == \E token \in Presentable : VerifyEmailReq(token)

\* POST /auth/token
LoginReq(email, password) ==
    /\ UNCHANGED <<call, ret, roleVars, pc>>
    /\ IF \/ ~HasUser(users, email)
          \/ ~verify_password(password,
                              get_user_by_email(users, email).hashed_password)
       THEN /\ resp' = Resp("login", 401, "Incorrect email or password", {})
            /\ UNCHANGED <<users, contacts, nextUserId, nextContactId, now,
                           outbox, session, verifiedOk>>
       ELSE LET user == get_user_by_email(users, email)
                pair == {Issued("access",
                                create_access_token(user.email, NoDelta, now)),
                         Issued("refresh",
                                create_refresh_token(user.email, NoDelta, now))}
            IN /\ session' = pair
               /\ resp' = Resp("login", 201, None, pair)
               /\ UNCHANGED <<users, contacts, nextUserId, nextContactId, now,
                              outbox, verifiedOk>>

Login ==
    \E email \in Emails \cup {"nobody@x"}, password \in Passwords \cup {"bad"} :
        LoginReq(email, password)

\* POST /contacts/  (RoleChecker([USER, ADMIN]), then get_current_user)
CreateContactsReq(token, contact) ==
    /\ UNCHANGED <<call, ret, roleVars, pc>>
    /\ LET dep == RoleChecker(users, token, now, {"user", "admin"}) IN
       IF dep.status # 200
       THEN /\ resp' = DependencyError("create_contacts", dep.status)
            /\ UNCHANGED <<users, contacts, nextUserId, nextContactId, now,
                           outbox, session, verifiedOk>>
       ELSE IF EmailTaken(contacts, contact.email)
       THEN /\ resp' = Resp("create_contacts", 500, "Internal Server Error", {})
            /\ UNCHANGED <<users, contacts, nextUserId, nextContactId, now,
                           outbox, session, verifiedOk>>
       ELSE /\ nextContactId <= MaxContacts
            /\ \E current_user \in dep.user :
                   LET new_contact == NewContact(nextContactId, contact,
                                                 current_user.id)
                   IN /\ contacts' = contacts \cup {new_contact}
                      /\ resp' = Resp("create_contacts", 201, None, {new_contact})
            /\ nextContactId' = nextContactId + 1
            /\ UNCHANGED <<users, nextUserId, now, outbox, session, verifiedOk>>

CreateContacts ==
    \E token \in Presentable, contact \in ContactsCreate :
        CreateContactsReq(token, contact)

\* GET /contacts/  (RoleChecker([USER, ADMIN]), then get_current_user)
GetContactsReq(token) ==
    /\ UNCHANGED <<call, ret, roleVars, pc>>
    /\ LET dep == RoleChecker(users, token, now, {"user", "admin"}) IN
       resp' = IF dep.status # 200
               THEN DependencyError("get_contacts", dep.status)
               ELSE Resp("get_contacts", 200, None,
                         UNION {get_contacts(contacts, u.id) : u \in dep.user})
    /\ UNCHANGED <<users, contacts, nextUserId, nextContactId, now, outbox,
                   session, verifiedOk>>

GetContacts == \E token \in Presentable : GetContactsReq(token)

\* GET /contacts/all/  (RoleChecker([ADMIN]))
GetContactsAllReq(token) ==
    /\ UNCHANGED <<call, ret, roleVars, pc>>
    /\ LET dep == RoleChecker(users, token, now, {"admin"}) IN
       resp' = IF dep.status # 200
               THEN DependencyError("get_contacts_all", dep.status)
               ELSE Resp("get_contacts_all", 200, None, get_contacts_all(contacts))
    /\ UNCHANGED <<users, contacts, nextUserId, nextContactId, now, outbox,
                   session, verifiedOk>>

GetContactsAll == \E token \in Presentable : GetContactsAllReq(token)

\* DELETE /contacts/{contact_id}  (RoleChecker([ADMIN]))
DeleteContactReq(token, contact_id) ==
    /\ UNCHANGED <<call, ret, roleVars, pc>>
    /\ LET dep == RoleChecker(users, token, now, {"admin"}) IN
       IF dep.status # 200
       THEN /\ resp' = DependencyError("delete_contact", dep.status)
            /\ UNCHANGED <<users, contacts, nextUserId, nextContactId, now,
                           outbox, session, verifiedOk>>
       ELSE IF ~HasContact(contacts, contact_id)
       THEN /\ resp' = Resp("delete_contact", 404, "Contact not found", {})
            /\ UNCHANGED <<users, contacts, nextUserId, nextContactId, now,
                           outbox, session, verifiedOk>>
       ELSE /\ contacts' = delete_contact(contacts, contact_id)
            /\ resp' = Resp("delete_contact", 200, None, {contact_id})
            /\ UNCHANGED <<users, nextUserId, nextContactId, now, outbox,
                           session, verifiedOk>>

DeleteContact ==
    \E token \in Presentable, contact_id \in 1..(MaxContacts + 1) :
        DeleteContactReq(token, contact_id)

\* PUT /contacts/{identifier}  (get_current_user only, no RoleChecker)
UpdateContactReq(token, identifier, contact_update) ==
    /\ UNCHANGED <<call, ret, roleVars, pc>>
    /\ LET auth == get_current_user(users, token, now) IN
       IF auth.status # 200
       THEN /\ resp' = DependencyError("update_contact", auth.status)
            /\ UNCHANGED <<users, contacts, nextUserId, nextContactId, now,
                           outbox, session, verifiedOk>>
       ELSE \E current_user \in auth.user :
              LET r == update_contact(contacts, identifier, current_user.id,
                                      contact_update)
              IN /\ contacts' = r.contacts
                 /\ resp' = IF r.raised # None
                            THEN Resp("update_contact", 500,
                                      "Internal Server Error", {})
                            ELSE IF r.value = {}
                            THEN Resp("update_contact", 404,
                                      "Contact not found", {})
                            ELSE Resp("update_contact", 200, None, r.value)
                 /\ UNCHANGED <<users, nextUserId, nextContactId, now, outbox,
                                session, verifiedOk>>

UpdateContact ==
    \E token \in Presentable, identifier \in Identifiers,
       contact_update \in ContactsUpdate :
        UpdateContactReq(token, identifier, contact_update)

\* The service with the clock running and an empty contacts table
Next ==
    \/ Tick
    \/ Register
    \/ VerifyEmail
    \/ Login
    \/ GetContacts

Spec == Init /\ [][Next]_vars

\* The service at one instant, with the contacts endpoints
NextContacts ==
    \/ Register
    \/ VerifyEmail
    \/ Login
    \/ CreateContacts
    \/ GetContacts
    \/ GetContactsAll
    \/ DeleteContact

SpecContacts == Init /\ [][NextContacts]_vars

\* The contact-writing endpoints, with the clock frozen
NextUpdate ==
    \/ Register
    \/ Login
    \/ CreateContacts
    \/ UpdateContact
    \/ DeleteContact

SpecUpdate == Init /\ [][NextUpdate]_vars

\* ------------------------------------------------------------ token functions
\* Inputs of the function-level token specification
Subjects == Emails \cup {"test_user"}
Deltas == {NoDelta, <<0>>, <<-1>>, <<-60>>, <<60>>}
IssueTimes == {0, Hours(1)}
DecodeOffsets == {0, 1, 60,
                  Minutes(ACCESS_TOKEN_EXPIRE_MINUTES),
                  Minutes(ACCESS_TOKEN_EXPIRE_MINUTES) + 1,
                  Hours(VERIFICATION_TOKEN_HOUSE),
                  Hours(VERIFICATION_TOKEN_HOUSE) + 1,
                  Days(REFRESH_TOKEN_EXPIRE_DAYS),
                  Days(REFRESH_TOKEN_EXPIRE_DAYS) + 1}

\* users tables the decode path is evaluated against
SampleUsers ==
    LET a == NewUser(1, "u1", "a@x", "pw1", "user")
        b == NewUser(2, "u1", "b@x", "pw1", "admin")
    IN {{}, {a}, {a, b}}

InitToken ==
    /\ users \in SampleUsers
    /\ contacts = {}
    /\ nextUserId = Cardinality(users) + 1
    /\ nextContactId = 1
    /\ now = 0
    /\ outbox = {}
    /\ session = {}
    /\ verifiedOk = {}
    /\ resp = NoResp
    /\ call = NoCall
    /\ ret = NoRet
    /\ roles = InitialRoles
    /\ instances = 0
    /\ lru_cache = {}
    /\ pc = Idle

\* create_access_token / create_refresh_token(data, expires_delta); data carries
\* "sub" or (sub = None) no subject at all
CreateToken ==
    /\ call = NoCall
    /\ \E cls \in {"access", "refresh"}, sub \in Subjects \cup {None},
          delta \in Deltas, t \in IssueTimes :
            call' = [fn |-> cls, sub |-> sub, delta |-> delta, at |-> t,
                     token |-> IF cls = "access"
                               THEN create_access_token(sub, delta, t)
                               ELSE create_refresh_token(sub, delta, t)]
    /\ UNCHANGED <<ret, appVars>>

\* create_verification_token(email)
CreateVerificationToken ==
    /\ call = NoCall
    /\ \E email \in Subjects, t \in IssueTimes :
            call' = [fn |-> "verification", sub |-> email, delta |-> NoDelta,
                     at |-> t, token |-> create_verification_token(email, t)]
    /\ UNCHANGED <<ret, appVars>>

\* a string that the service never issued: no JWS, or signed with another key
ForeignToken ==
    /\ call = NoCall
    /\ \E token \in ForgedTokens \cup {MalformedToken}, t \in IssueTimes :
            call' = [fn |-> "foreign", sub |-> token.sub, delta |-> NoDelta,
                     at |-> t, token |-> token]
    /\ UNCHANGED <<ret, appVars>>

\* decode_access_token, decode_verification_token and get_current_user on the
\* token, some time after it was made
DecodeToken ==
    /\ call # NoCall
    /\ \E off \in DecodeOffsets :
        LET t == call.at + off IN
            ret' = [fn |-> "decode", at |-> t,
                    access |-> decode_access_token(call.token, t),
                    verification |-> decode_verification_token(call.token, t),
                    current_user |-> get_current_user(users, call.token, t).status,
                    response |-> LET auth == get_current_user(users, call.token, t)
                                 IN IF auth.status = 200
                                    THEN Resp("get_contacts", 200, None, {})
                                    ELSE DependencyError("get_contacts",
                                                         auth.status)]
    /\ UNCHANGED <<call, appVars>>

NextToken ==
    \/ CreateToken
    \/ CreateVerificationToken
    \/ ForeignToken
    \/ DecodeToken

SpecToken == InitToken /\ [][NextToken]_vars

\* ------------------------------------------------------------ search
\* Strings whose characters matter are sequences of one-character strings.
Lower(ch) == IF ch = "A" THEN "a" ELSE IF ch = "B" THEN "b" ELSE ch

\* SQL LIKE on lower-cased operands (ILIKE): "%" matches any run of
\* characters, "_" matches any one character.
RECURSIVE LikeMatch(_, _)
LikeMatch(pattern, str) ==
    IF pattern = <<>> THEN str = <<>>
    ELSE IF Head(pattern) = "%"
         THEN \/ LikeMatch(Tail(pattern), str)
              \/ (str # <<>> /\ LikeMatch(pattern, Tail(str)))
    ELSE IF str = <<>> THEN FALSE
    ELSE /\ (Head(pattern) = "_" \/ Lower(Head(pattern)) = Lower(Head(str)))
         /\ LikeMatch(Tail(pattern), Tail(str))

\* column.ilike(f"%{query}%")
ILikeContains(column, query) == LikeMatch(<<"%">> \o query \o <<"%">>, column)

\* ContactsRepository.search_contacts
search_contacts(cs, owner_id, query) ==
    {c \in cs : /\ c.owner_id = owner_id
                /\ \/ ILikeContains(c.first_name, query)
                   \/ ILikeContains(c.last_name, query)
                   \/ ILikeContains(c.email, query)}

\* Inputs of the function-level search specification
MaxQueryLen == 2
Alphabet == {"a", "A", "b", "_", "%"}
Queries == UNION {[1..n -> Alphabet] : n \in 0..MaxQueryLen}

SearchFirstNames == {<<"A", "b">>, <<"b">>}
SearchLastNames == {<<"a", "B">>}
SearchEmails == {<<"a", "_", "b">>, <<"b", "a">>}

SearchRow(id) ==
    {NewContact(id, [first_name |-> f, last_name |-> l, email |-> e,
                     phone_number |-> "123", birthday |-> Date(1990, 1, 1),
                     additional_info |-> None], o) :
        f \in SearchFirstNames, l \in SearchLastNames, e \in SearchEmails,
        o \in 1..2}

\* contacts tables of at most two rows with distinct e-mails
SearchTables ==
    {{}} \cup {{c} : c \in SearchRow(1)}
         \cup UNION {{{c, d} : d \in {x \in SearchRow(2) : x.email # c.email}} :
                     c \in SearchRow(1)}

InitSearch ==
    /\ users = CHOOSE us \in SampleUsers : Cardinality(us) = 2
    /\ contacts \in SearchTables
    /\ nextUserId = 3
    /\ nextContactId = Cardinality(contacts) + 1
    /\ now = 0
    /\ outbox = {}
    /\ session = {}
    /\ verifiedOk = {}
    /\ resp = NoResp
    /\ call = NoCall
    /\ ret = NoRet
    /\ roles = InitialRoles
    /\ instances = 0
    /\ lru_cache = {}
    /\ pc = Idle

\* search_contacts(owner_id, query) on the table
SearchContacts ==
    /\ call = NoCall
    /\ \E owner_id \in 1..2, query \in Queries :
        /\ call' = [fn |-> "search_contacts", owner_id |-> owner_id,
                    query |-> query]
        /\ ret' = [fn |-> "search_contacts",
                   result |-> search_contacts(contacts, owner_id, query)]
    /\ UNCHANGED appVars

NextSearch == SearchContacts

SpecSearch == InitSearch /\ [][NextSearch]_vars

\* ------------------------------------------------------------ birthdays
IsLeap(y) == (y % 4 = 0 /\ y % 100 # 0) \/ y % 400 = 0
DaysInYear(y) == IF IsLeap(y) THEN 366 ELSE 365
DaysInMonth(y, m) ==
    IF m = 2 THEN (IF IsLeap(y) THEN 29 ELSE 28)
    ELSE IF m \in {4, 6, 9, 11} THEN 30 ELSE 31

\* timetuple().tm_yday and SQL extract("doy", ...): 1 for January 1
RECURSIVE DaysBeforeMonth(_, _)
DaysBeforeMonth(y, m) ==
    IF m = 1 THEN 0 ELSE DaysBeforeMonth(y, m - 1) + DaysInMonth(y, m - 1)

DayOfYear(date) == DaysBeforeMonth(date.y, date.m) + date.d

\* the date that is the n-th day counted from January 1 of year y (n >= 1)
RECURSIVE MonthDay(_, _, _)
MonthDay(y, m, n) ==
    IF n > DaysInMonth(y, m) THEN MonthDay(y, m + 1, n - DaysInMonth(y, m))
    ELSE Date(y, m, n)

RECURSIVE FromYearDay(_, _)
FromYearDay(y, n) ==
    IF n > DaysInYear(y) THEN FromYearDay(y + 1, n - DaysInYear(y))
    ELSE MonthDay(y, 1, n)

\* today + timedelta(days=days), days >= 0
AddDays(date, days) == FromYearDay(date.y, DayOfYear(date) + days)

\* ContactsRepository.get_upcoming_birthdays, with today = datetime.today()
get_upcoming_birthdays(cs, owner_id, days, today) ==
    LET upcoming_date == AddDays(today, days)
        today_day_of_year == DayOfYear(today)
        upcoming_day_of_year == DayOfYear(upcoming_date)
    IN IF today_day_of_year <= upcoming_day_of_year
       THEN {c \in cs : /\ c.owner_id = owner_id
                        /\ DayOfYear(c.birthday) >= today_day_of_year
                        /\ DayOfYear(c.birthday) <= upcoming_day_of_year}
       ELSE {c \in cs : /\ c.owner_id = owner_id
                        /\ \/ DayOfYear(c.birthday) >= today_day_of_year
                           \/ DayOfYear(c.birthday) <= upcoming_day_of_year}

\* Inputs of the function-level birthday specification
Todays == {Date(2025, 6, 1), Date(2024, 6, 1), Date(2025, 12, 28),
           Date(2024, 12, 28), Date(2025, 2, 26)}
DaysAhead == {0, 1, 7, 30, 365}
Birthdays == {Date(2000, 5, 31), Date(2000, 6, 1), Date(2000, 6, 8),
              Date(2000, 6, 9), Date(2001, 5, 31), Date(2001, 6, 1),
              Date(2001, 6, 8), Date(2001, 6, 9), Date(2000, 1, 2),
              Date(2001, 1, 4), Date(2000, 2, 29), Date(2001, 12, 28),
              Date(2000, 12, 31), Date(2001, 12, 27), Date(2000, 12, 27)}

BirthdayRow(id) ==
    {NewContact(id, [first_name |-> "Ann", last_name |-> "Lee",
                     email |-> IF id = 1 THEN "c1@x" ELSE "c2@x",
                     phone_number |-> "123", birthday |-> b,
                     additional_info |-> None], o) :
        b \in Birthdays, o \in 1..2}

BirthdayTables ==
    {{}} \cup {{c} : c \in BirthdayRow(1)}
         \cup {{c, d} : c \in BirthdayRow(1), d \in BirthdayRow(2)}

InitBirthday ==
    /\ users = CHOOSE us \in SampleUsers : Cardinality(us) = 2
    /\ contacts \in BirthdayTables
    /\ nextUserId = 3
    /\ nextContactId = Cardinality(contacts) + 1
    /\ now = 0
    /\ outbox = {}
    /\ session = {}
    /\ verifiedOk = {}
    /\ resp = NoResp
    /\ call = NoCall
    /\ ret = NoRet
    /\ roles = InitialRoles
    /\ instances = 0
    /\ lru_cache = {}
    /\ pc = Idle

\* get_upcoming_birthdays(owner_id, days) called on the day "today"
UpcomingBirthdays ==
    /\ call = NoCall
    /\ \E owner_id \in 1..2, days \in DaysAhead, today \in Todays :
        /\ call' = [fn |-> "get_upcoming_birthdays", owner_id |-> owner_id,
                    days |-> days, today |-> today]
        /\ ret' = [fn |-> "get_upcoming_birthdays",
                   result |-> get_upcoming_birthdays(contacts, owner_id, days,
                                                     today)]
    /\ UNCHANGED appVars

NextBirthday == UpcomingBirthdays

SpecBirthday == InitBirthday /\ [][NextBirthday]_vars

\* ------------------------------------------------------------ avatar
\* what cloudinary.uploader.upload does: raises, or returns a result with or
\* without a (non-empty) secure_url
UploadResults ==
    {[raised |-> TRUE, secure_url |-> None],
     [raised |-> FALSE, secure_url |-> None],
     [raised |-> FALSE, secure_url |-> ""]}
    \cup {[raised |-> FALSE, secure_url |-> url] : url \in AvatarUrls}

\* PATCH /auth/avatar  (get_current_user; the body is one try/except Exception)
UpdateAvatarUserReq(token, upload) ==
    /\ UNCHANGED <<call, ret, roleVars, pc>>
    /\ LET auth == get_current_user(users, token, now)
           failed == Resp("update_avatar_user", 500, "Failed to update avatar",
                          {})
       IN
       IF auth.status # 200
       THEN /\ resp' = DependencyError("update_avatar_user", auth.status)
            /\ UNCHANGED <<users, contacts, nextUserId, nextContactId, now,
                           outbox, session, verifiedOk>>
       ELSE IF upload.raised \/ upload.secure_url \in {None, ""}
       THEN /\ resp' = failed
            /\ UNCHANGED <<users, contacts, nextUserId, nextContactId, now,
                           outbox, session, verifiedOk>>
       ELSE \E current_user \in auth.user :
              LET r == update_avatar(users, current_user.email,
                                     upload.secure_url)
              IN /\ users' = r.users
                 /\ resp' = IF r.raised # None THEN failed
                            ELSE Resp("update_avatar_user", 200, None, r.value)
                 /\ UNCHANGED <<contacts, nextUserId, nextContactId, now,
                                outbox, session, verifiedOk>>

UpdateAvatarUser ==
    \E token \in Presentable, upload \in UploadResults :
        UpdateAvatarUserReq(token, upload)

NextAvatar ==
    \/ Register
    \/ VerifyEmail
    \/ Login
    \/ UpdateAvatarUser

SpecAvatar == Init /\ [][NextAvatar]_vars

\* ------------------------------------------------------------ PUT requests
\* PUT /contacts/{identifier} on its own, started from the tables that two
\* registered users can have built with at most two contacts
PutRow(id) ==
    {NewContact(id, [first_name |-> f, last_name |-> "Lee", email |-> e,
                     phone_number |-> "123", birthday |-> Date(1990, 1, 1),
                     additional_info |-> None], o) :
        f \in FirstNames \cup {"2"}, e \in ContactEmails, o \in 1..2}

PutTables ==
    {{}} \cup {{c} : c \in PutRow(1)} \cup {{c} : c \in PutRow(2)}
         \cup UNION {{{c, d} : d \in {x \in PutRow(2) : x.email # c.email}} :
                        c \in PutRow(1)}

InitPut ==
    /\ users = CHOOSE us \in SampleUsers : Cardinality(us) = 2
    /\ contacts \in PutTables
    /\ nextUserId = 3
    /\ nextContactId = 3
    /\ now = 0
    /\ outbox = {[to |-> u.email,
                  token |-> create_verification_token(u.email, 0)] :
                    u \in CHOOSE us \in SampleUsers : Cardinality(us) = 2}
    /\ session = {}
    /\ verifiedOk = {}
    /\ resp = NoResp
    /\ call = NoCall
    /\ ret = NoRet
    /\ roles = InitialRoles
    /\ instances = 0
    /\ lru_cache = {}
    /\ pc = Idle

NextPut == UpdateContact

SpecPut == InitPut /\ [][NextPut]_vars

\* ------------------------------------------------------------ repositories
\* The repository methods called one at a time on one session.  ret.commits
\* is the number of session.commit() calls the method made; ret.raised is the
\* exception that left it, or None.
InitRepo ==
    /\ users \in {us \in SampleUsers : Cardinality(us) = 1}
    /\ contacts = {}
    /\ nextUserId = Cardinality(users) + 1
    /\ nextContactId = 1
    /\ now = 0
    /\ outbox = {}
    /\ session = {}
    /\ verifiedOk = {}
    /\ resp = NoResp
    /\ call = NoCall
    /\ ret = NoRet
    /\ roles = InitialRoles
    /\ instances = 0
    /\ lru_cache = {}
    /\ pc = Idle

\* variant: delete_contact commits whether or not the contact exists
delete_contact_commits_always(cs, contact_id) ==
    IF HasContact(cs, contact_id) THEN 1 ELSE 1

\* session.commit() in delete_contact, made only "if contact"

delete_contact_commits(cs, contact_id) ==
    IF HasContact(cs, contact_id) THEN 1 ELSE 0

\* UserRepository.create_user(user_create); the commit of a second user with
\* a stored e-mail is refused by the unique constraint on users.email
CreateUserCall ==
    /\ \E email \in Emails, role \in {"user"} :
        LET refused == HasUser(users, email) IN
        /\ call' = [fn |-> "create_user", email |-> email, role |-> role]
        /\ users' = IF refused THEN users
                    ELSE create_user(users, nextUserId, "u1", email, "pw1", role)
        /\ nextUserId' = IF refused THEN nextUserId ELSE nextUserId + 1
        /\ ret' = [fn |-> "create_user",
                   raised |-> IF refused THEN "IntegrityError" ELSE None,
                   commits |-> 1]
    /\ UNCHANGED <<contacts, nextContactId, now, outbox, session, verifiedOk,
                   resp>>
    /\ UNCHANGED <<roleVars, pc>>

\* UserRepository.activate_user(user)
ActivateUserCall ==
    /\ \E user \in users :
        /\ call' = [fn |-> "activate_user", email |-> user.email]
        /\ users' = activate_user(users, user)
        /\ ret' = [fn |-> "activate_user", raised |-> None, commits |-> 1]
    /\ UNCHANGED <<contacts, nextUserId, nextContactId, now, outbox, session,
                   verifiedOk, resp>>
    /\ UNCHANGED <<roleVars, pc>>

\* UserRepository.update_avatar(email, url)
UpdateAvatarCall ==
    /\ \E email \in Emails, url \in AvatarUrls :
        LET r == update_avatar(users, email, url) IN
        /\ call' = [fn |-> "update_avatar", email |-> email]
        /\ users' = r.users
        /\ ret' = [fn |-> "update_avatar", raised |-> r.raised,
                   commits |-> r.commits]
    /\ UNCHANGED <<contacts, nextUserId, nextContactId, now, outbox, session,
                   verifiedOk, resp>>
    /\ UNCHANGED <<roleVars, pc>>

\* ContactsRepository.create_contacts(contact, owner_id); the commit of a
\* contact with a stored e-mail is refused by the unique constraint
CreateContactsCall ==
    /\ nextContactId <= MaxContacts
    /\ \E contact \in ContactsCreate, owner \in users :
        LET refused == EmailTaken(contacts, contact.email) IN
        /\ call' = [fn |-> "create_contacts", owner_id |-> owner.id,
                    email |-> contact.email]
        /\ contacts' = IF refused THEN contacts
                       ELSE contacts \cup
                            {NewContact(nextContactId, contact, owner.id)}
        /\ nextContactId' = IF refused THEN nextContactId
                            ELSE nextContactId + 1
        /\ ret' = [fn |-> "create_contacts",
                   raised |-> IF refused THEN "IntegrityError" ELSE None,
                   commits |-> 1]
    /\ UNCHANGED <<users, nextUserId, now, outbox, session, verifiedOk, resp>>
    /\ UNCHANGED <<roleVars, pc>>

\* ContactsRepository.update_contact(identifier, owner_id, contact_update)
UpdateContactCall ==
    /\ \E identifier \in Identifiers, owner \in users,
          contact_update \in ContactsUpdate :
        LET r == update_contact(contacts, identifier, owner.id, contact_update)
        IN /\ call' = [fn |-> "update_contact", identifier |-> identifier,
                       owner_id |-> owner.id, email |-> contact_update.email]
           /\ contacts' = r.contacts
           /\ ret' = [fn |-> "update_contact", raised |-> r.raised,
                      commits |-> r.commits, value |-> r.value]
    /\ UNCHANGED <<users, nextUserId, nextContactId, now, outbox, session,
                   verifiedOk, resp>>
    /\ UNCHANGED <<roleVars, pc>>

\* ContactsRepository.delete_contact(contact_id)
DeleteContactCall ==
    /\ \E contact_id \in 1..(MaxContacts + 1) :
        /\ call' = [fn |-> "delete_contact", contact_id |-> contact_id]
        /\ contacts' = delete_contact(contacts, contact_id)
        /\ ret' = [fn |-> "delete_contact", raised |-> None,
                   commits |-> delete_contact_commits(contacts, contact_id)]
    /\ UNCHANGED <<users, nextUserId, nextContactId, now, outbox, session,
                   verifiedOk, resp>>
    /\ UNCHANGED <<roleVars, pc>>

NextRepo ==
    \/ CreateUserCall
    \/ ActivateUserCall
    \/ UpdateAvatarCall
    \/ CreateContactsCall
    \/ UpdateContactCall
    \/ DeleteContactCall

SpecRepo == InitRepo /\ [][NextRepo]_vars

\* ------------------------------------------------------------ role lookup
\* RoleRepository objects constructed in one process, and ids a role row takes
MaxRepos == 3
MaxRoleId == 4

\* the key functools.lru_cache makes for a call of the decorated method: the
\* positional arguments (self, name); a RoleRepository defines no __eq__ or
\* __hash__, so self counts by object identity
CacheKey(self, name) == <<self, name>>

\* RoleRepository.get_role_by_name under @lru_cache (maxsize 128, never
\* reached here): a hit returns the stored result, a miss runs the query and
\* stores its result
get_role_by_name(cache, table, self, name) ==
    IF \E e \in cache : e.key = CacheKey(self, name)
    THEN [result |-> (CHOOSE e \in cache : e.key = CacheKey(self, name)).result,
          queried |-> FALSE, cache |-> cache]
    ELSE [result |-> table[name], queried |-> TRUE,
          cache |-> cache \cup {[key |-> CacheKey(self, name),
                                  result |-> table[name]]}]

\* create_user: RoleRepository(self.session).get_role_by_name(user_create.role)
CreateUserRoleLookup ==
    /\ instances < MaxRepos
    /\ \E name \in RoleEnum :
        LET self == instances + 1
            r == get_role_by_name(lru_cache, roles, self, name)
        IN /\ instances' = self
           /\ lru_cache' = r.cache
           /\ call' = [fn |-> "get_role_by_name", self |-> self, name |-> name,
                       from |-> "create_user"]
           /\ ret' = [fn |-> "get_role_by_name", result |-> r.result,
                      queried |-> r.queried]
    /\ UNCHANGED <<users, contacts, nextUserId, nextContactId, now, outbox,
                   session, verifiedOk, resp, roles>>
    /\ UNCHANGED pc

\* get_role_by_name called again on a RoleRepository that already exists
GetRoleByName ==
    /\ \E self \in 1..instances, name \in RoleEnum :
        LET r == get_role_by_name(lru_cache, roles, self, name)
        IN /\ lru_cache' = r.cache
           /\ call' = [fn |-> "get_role_by_name", self |-> self, name |-> name,
                       from |-> "repo"]
           /\ ret' = [fn |-> "get_role_by_name", result |-> r.result,
                      queried |-> r.queried]
    /\ UNCHANGED <<users, contacts, nextUserId, nextContactId, now, outbox,
                   session, verifiedOk, resp, roles, instances>>
    /\ UNCHANGED pc

\* the role record changes in the database: the row of a name is replaced
ChangeRole ==
    /\ \E name \in RoleEnum :
        /\ roles[name] + 2 <= MaxRoleId
        /\ roles' = [roles EXCEPT ![name] = @ + 2]
    /\ UNCHANGED <<users, contacts, nextUserId, nextContactId, now, outbox,
                   session, verifiedOk, resp, call, ret, instances, lru_cache>>
    /\ UNCHANGED pc

NextRole ==
    \/ CreateUserRoleLookup
    \/ GetRoleByName
    \/ ChangeRole

SpecRole == Init /\ [][NextRole]_vars

\* ------------------------------------------------------------ concurrency
\* Two requests run at the same time (the handlers are plain def functions,
\* served from the thread pool), each on a database session of its own.  A
\* step is one statement sent to the database; pc[r] holds the position of
\* request r and the locals it carries from one statement to the next.
RaceEmails == ContactEmails \cup {"c3@x"}
RaceIdentifiers == {"1", "2"}
RaceUpdates ==
    [first_name : FirstNames, last_name : LastNames, email : RaceEmails,
     phone_number : {"123"}, birthday : {Date(1990, 1, 1)},
     additional_info : {None}]

\* unique constraint on users.email: the INSERT is refused
UserEmailTaken(us, email) == \E u \in us : u.email = email

\* the request has been answered
Done(op, status, raised, email, contact) ==
    [op |-> op, at |-> "done", status |-> status, raised |-> raised,
     email |-> email, contact |-> contact]

InitRace ==
    /\ users = {NewUser(1, "u1", "a@x", "pw1", "user")}
    /\ contacts = {NewContact(1, [first_name |-> "Ann", last_name |-> "Lee",
                                  email |-> "c1@x", phone_number |-> "123",
                                  birthday |-> Date(1990, 1, 1),
                                  additional_info |-> None], 1),
                   NewContact(2, [first_name |-> "Ann", last_name |-> "Lee",
                                  email |-> "c2@x", phone_number |-> "123",
                                  birthday |-> Date(1990, 1, 1),
                                  additional_info |-> None], 1)}
    /\ nextUserId = 2
    /\ nextContactId = 3
    /\ now = 0
    /\ outbox = {[to |-> "a@x", token |-> create_verification_token("a@x", 0)]}
    /\ session = {}
    /\ verifiedOk = {}
    /\ resp = NoResp
    /\ call = NoCall
    /\ ret = NoRet
    /\ roles = InitialRoles
    /\ instances = 0
    /\ lru_cache = {}
    /\ pc = Idle

\* PUT /contacts/{identifier}, first statement: find_contact
UpdateFind(r) ==
    /\ pc[r].at = "idle"
    /\ \E identifier \in RaceIdentifiers, current_user \in users,
          contact_update \in RaceUpdates :
          LET found == find_contact(contacts, current_user.id, identifier) IN
          pc' = [pc EXCEPT ![r] =
                   IF found.raised # None
                   THEN Done("update_contact", 500, found.raised,
                             contact_update.email, {})
                   ELSE IF found.value = {}
                   THEN Done("update_contact", 404, None,
                             contact_update.email, {})
                   ELSE [op |-> "update_contact", at |-> "found",
                         contact |-> found.value,
                         contact_update |-> contact_update]]
    /\ UNCHANGED <<users, contacts, nextUserId, nextContactId, now, outbox,
                   session, verifiedOk, resp, call, ret, roleVars>>

\* second statement: select(Contact).where(Contact.email == ...), and the
\* comparison with the contact found
UpdateCheck(r) ==
    /\ pc[r].at = "found"
    /\ LET contact == CHOOSE c \in pc[r].contact : TRUE
           email == pc[r].contact_update.email IN
       pc' = [pc EXCEPT ![r] =
                IF /\ email # ""
                   /\ scalar_one_or_none(
                          {c \in contacts : c.email = email}).raised # None
                THEN Done("update_contact", 500, "MultipleResultsFound",
                          email, pc[r].contact)
                ELSE IF email # "" /\ EmailInUse(contacts, contact, email)
                THEN Done("update_contact", 500, "ValueError", email,
                          pc[r].contact)
                ELSE [pc[r] EXCEPT !.at = "checked"]]
    /\ UNCHANGED <<users, contacts, nextUserId, nextContactId, now, outbox,
                   session, verifiedOk, resp, call, ret, roleVars>>

\* third statement: update(Contact).where(Contact.id == contact.id), commit
UpdateWrite(r) ==
    /\ pc[r].at = "checked" /\ pc[r].op = "update_contact"
    /\ LET contact == CHOOSE c \in pc[r].contact : TRUE
           email == pc[r].contact_update.email
           row == {c \in contacts : c.id = contact.id} IN
       IF row = {}
       THEN /\ pc' = [pc EXCEPT ![r] =
                        Done("update_contact", 404, None, email, {})]
            /\ UNCHANGED contacts
       ELSE IF EmailTaken(contacts \ row, email)
       THEN /\ pc' = [pc EXCEPT ![r] =
                        Done("update_contact", 500, "IntegrityError", email,
                             pc[r].contact)]
            /\ UNCHANGED contacts
       ELSE LET updated_contact ==
                    UpdatedContact(CHOOSE c \in row : TRUE,
                                   pc[r].contact_update) IN
            /\ contacts' = (contacts \ row) \cup {updated_contact}
            /\ pc' = [pc EXCEPT ![r] =
                        Done("update_contact", 200, None, email,
                             {updated_contact})]
    /\ UNCHANGED <<users, nextUserId, nextContactId, now, outbox, session,
                   verifiedOk, resp, call, ret, roleVars>>

\* POST /auth/register, first statement: get_user_by_email
RegisterCheck(r) ==
    /\ pc[r].at = "idle"
    /\ \E email \in Emails :
          pc' = [pc EXCEPT ![r] =
                   IF HasUser(users, email)
                   THEN Done("register", 409, "Email already registered",
                             email, {})
                   ELSE [op |-> "register", at |-> "checked",
                         email |-> email]]
    /\ UNCHANGED <<users, contacts, nextUserId, nextContactId, now, outbox,
                   session, verifiedOk, resp, call, ret, roleVars>>

\* second statement: create_user (add, commit), then the verification mail
RegisterCreate(r) ==
    /\ pc[r].at = "checked" /\ pc[r].op = "register"
    /\ LET email == pc[r].email IN
       IF UserEmailTaken(users, email)
       THEN /\ pc' = [pc EXCEPT ![r] =
                        Done("register", 500, "IntegrityError", email, {})]
            /\ UNCHANGED <<users, nextUserId, outbox>>
       ELSE /\ users' = create_user(users, nextUserId, "u1", email, "pw1",
                                    "user")
            /\ nextUserId' = nextUserId + 1
            /\ outbox' = outbox \cup
                   {[to |-> email,
                     token |-> create_verification_token(email, now)]}
            /\ pc' = [pc EXCEPT ![r] =
                        Done("register", 201, None, email, {})]
    /\ UNCHANGED <<contacts, nextContactId, now, session, verifiedOk, resp,
                   call, ret, roleVars>>

NextRace ==
    \E r \in Requests :
        \/ UpdateFind(r)
        \/ UpdateCheck(r)
        \/ UpdateWrite(r)
        \/ RegisterCheck(r)
        \/ RegisterCreate(r)

SpecRace == InitRace /\ [][NextRace]_vars

\* ------------------------------------------------------------ claims C1 - C3
\* C1: round trip.  A token made by create_access_token with subject S and
\* decoded by decode_access_token before its expiry yields username S; a token
\* made by create_verification_token for e-mail E and decoded by
\* decode_verification_token before its expiry yields E.
C1_RoundTrip ==
    (/\ ret.fn = "decode"
     /\ call.fn \in {"access", "verification"}
     /\ call.sub # None
     /\ ret.at < call.token.exp)
    => /\ call.fn = "access" => ret.access = Returned(call.sub)
       /\ call.fn = "verification" => ret.verification = Returned(call.sub)

C1_Witness ==
    /\ ret.fn = "decode"
    /\ call.fn = "access"
    /\ call.sub = "test_user"
    /\ call.delta = NoDelta
    /\ ret.at = call.at + 60
    /\ ret.access = Returned("test_user")

\* C2: expiry.  A token made by create_access_token or create_refresh_token
\* with expires_delta <= 0 is decoded by decode_access_token as None.
C2_NonPositiveLifetimeIsInvalid ==
    (/\ ret.fn = "decode"
     /\ call.fn \in {"access", "refresh"}
     /\ call.delta # NoDelta
     /\ call.delta[1] <= 0)
    => ret.access = Returned(None)

C4_RegistrationUniqueness ==
    /\ [](\A u, v \in users : u.email = v.email => u = v)
    /\ [][\A email \in Emails, username \in Usernames, password \in Passwords,
             role \in RoleEnum :
              (/\ RegisterReq(email, username, password, role)
               /\ \E u \in users : u.email = email)
              => /\ resp'.status = 409
                 /\ resp'.detail = "Email already registered"
                 /\ users' = users
                 /\ outbox' = outbox]_vars

C4_Witness ==
    /\ resp.op = "register"
    /\ resp.status = 409
    /\ Cardinality(users) = 2
    /\ Cardinality(outbox) = 2

\* C5: a user is inactive until verification succeeds.  Every row enters the
\* table with is_active = FALSE, and a stored user is active only if a
\* verify-email request whose token carried that user's e-mail was answered 200.
C5_InactiveUntilVerified ==
    /\ [](\A u \in users : u.is_active => u.email \in verifiedOk)
    /\ [][\A u \in users' : (\A v \in users : v.id # u.id) => ~u.is_active]_vars

C5_Witness ==
    /\ \E u \in users : u.is_active /\ u.email \in verifiedOk
    /\ \E u \in users : ~u.is_active

\* C6: the verification token is single-purpose.  verify-email answers 200
\* only for a token that create_verification_token issued for that e-mail
\* (one of the mailed tokens), never for a token issued by login.
C6_VerificationTokenSinglePurpose ==
    (resp.op = "verify_email" /\ resp.status = 200)
    => \A token \in resp.body :
           \E m \in outbox : m.token = token /\ m.to = token.sub

\* C7: only an access token authorizes API calls.  get_current_user accepts
\* an unexpired token issued by create_access_token and answers 401 for a
\* refresh token or a verification token.
C7_OnlyAccessTokenAuthorizes ==
    \A i \in IssuedTokens :
        LET r == get_current_user(users, i.token, now) IN
        /\ (i.cls = "access" /\ now <= i.token.exp) => r.status = 200
        /\ i.cls \in {"refresh", "verification"} => r.status = 401

C9_SearchIsSubstringMatch ==
    ret.fn = "search_contacts" =>
        LET q == call.query
            Contains(str) ==
                \E i \in 0..(Len(str) - Len(q)) :
                    \A j \in 1..Len(q) : Lower(str[i + j]) = Lower(q[j])
        IN ret.result =
             {c \in contacts : /\ c.owner_id = call.owner_id
                               /\ \/ Contains(c.first_name)
                                  \/ Contains(c.last_name)
                                  \/ Contains(c.email)}

\* ------------------------------------------------------------ claim C10
\* C10: birthday window, non-wrapping.  When doy(today) <= doy(today + N) the
\* result is exactly the owner's contacts whose birthday's day-of-year lies in
\* [doy(today), doy(today + N)]; and for today = June 1, N = 7 it is exactly
\* the owner's contacts born on a June 1 .. June 8 of any year.
C10_NonWrappingWindow ==
    (/\ ret.fn = "get_upcoming_birthdays"
     /\ DayOfYear(call.today) <= DayOfYear(AddDays(call.today, call.days)))
    => /\ ret.result =
            {c \in contacts :
                /\ c.owner_id = call.owner_id
                /\ DayOfYear(c.birthday) \in
                       DayOfYear(call.today) ..
                           DayOfYear(AddDays(call.today, call.days))}
       /\ (call.today.m = 6 /\ call.today.d = 1 /\ call.days = 7)
          => ret.result =
               {c \in contacts : /\ c.owner_id = call.owner_id
                                 /\ c.birthday.m = 6
                                 /\ c.birthday.d \in 1..8}

\* ------------------------------------------------------------ claim C11
\* C11: birthday window, wrapping.  When doy(today) > doy(today + N) the
\* result is exactly the owner's contacts whose birthday's day-of-year is
\* >= doy(today) or <= doy(today + N); and for today = Dec 28, N = 7 an
\* owner's contact born on a Jan 2 is returned and no contact born outside
\* Dec 28 .. Jan 4 is returned.
C11_WrappingWindow ==
    LET InDec28ToJan4(date) == \/ date.m = 12 /\ date.d \in 28..31
                               \/ date.m = 1 /\ date.d \in 1..4
    IN
    (/\ ret.fn = "get_upcoming_birthdays"
     /\ DayOfYear(call.today) > DayOfYear(AddDays(call.today, call.days)))
    => /\ ret.result =
            {c \in contacts :
                /\ c.owner_id = call.owner_id
                /\ \/ DayOfYear(c.birthday) >= DayOfYear(call.today)
                   \/ DayOfYear(c.birthday) <=
                          DayOfYear(AddDays(call.today, call.days))}
       /\ (call.today.m = 12 /\ call.today.d = 28 /\ call.days = 7)
          => /\ \A c \in contacts :
                   (/\ c.owner_id = call.owner_id
                    /\ c.birthday.m = 1 /\ c.birthday.d = 2)
                   => c \in ret.result
             /\ \A c \in ret.result : InDec28ToJan4(c.birthday)

\* ------------------------------------------------------------ claim C12
\* C12: contact e-mail is unique globally.  After any sequence of create,
\* update and delete requests by any users, no two stored contacts, of the
\* same or of different owners, have the same e-mail.
C12_ContactEmailUnique ==
    \A c \in contacts : \A d \in contacts : c.email = d.email => c = d

\* two contacts of different owners are stored and an update that changed a
\* contact's e-mail has just been answered 200
C12_Witness ==
    /\ resp.op = "update_contact"
    /\ resp.status = 200
    /\ \E c \in contacts : \E d \in contacts : c.owner_id # d.owner_id
    /\ \E c \in resp.body : c.id = 1 /\ c.email # "c1@x" /\ c \in contacts

\* ------------------------------------------------------------ claim C13
\* C13: a contact's owner_id is immutable after creation.  create_contacts
\* stores the new contact with owner_id = the id of the authenticated
\* creator, and no later request (an update with any payload in particular)
\* changes the owner_id of a stored contact.
C13_OwnerImmutable ==
    [][/\ \A c \in contacts : \A d \in contacts' :
             d.id = c.id => d.owner_id = c.owner_id
       /\ \A token \in Presentable :
             (/\ resp'.op = "create_contacts"
              /\ resp'.status = 201
              /\ \E contact \in ContactsCreate :
                     CreateContactsReq(token, contact))
             => \A d \in contacts' \ contacts :
                   \A u \in get_current_user(users, token, now).user :
                       d.owner_id = u.id]_vars

\* user 2's contact has been updated by user 2 and still belongs to user 2
C13_Witness ==
    /\ resp.op = "update_contact"
    /\ resp.status = 200
    /\ \E c \in resp.body : /\ c.owner_id = 2
                             /\ c.first_name = "2"
                             /\ c \in contacts

\* ------------------------------------------------------------ claim C14
\* C14: a contact can be deleted by its owner as well as by an admin.  A
\* DELETE request for a contact made by the non-admin user who owns it
\* removes that contact.
C14_OwnerCanDelete ==
    [][\A token \in Presentable : \A contact_id \in 1..(MaxContacts + 1) :
          (/\ resp'.op = "delete_contact"
           /\ \E u \in get_current_user(users, token, now).user :
                 /\ RoleName(u.role_id) = "user"
                 /\ \E c \in contacts : c.id = contact_id /\ c.owner_id = u.id
           /\ DeleteContactReq(token, contact_id))
          => ~HasContact(contacts', contact_id)]_vars

\* ------------------------------------------------------------ claim C15
\* C15: a duplicate contact e-mail is a 409 conflict.  Creating a contact
\* with, or updating a contact to, an e-mail already held by a different
\* contact is answered 409 and leaves every stored contact unchanged.
C15_DuplicateEmailIs409 ==
    [][/\ \A token \in Presentable : \A contact \in ContactsCreate :
             (/\ resp'.op = "create_contacts"
              /\ RoleChecker(users, token, now, RoleEnum).status = 200
              /\ \E e \in contacts : e.email = contact.email
              /\ CreateContactsReq(token, contact))
             => resp'.status = 409 /\ contacts' = contacts
       /\ \A token \in Presentable : \A identifier \in Identifiers :
             \A contact_update \in ContactsUpdate :
             (/\ resp'.op = "update_contact"
              /\ \E u \in get_current_user(users, token, now).user :
                   \E c \in find_contact(contacts, u.id, identifier).value :
                     \E e \in contacts : /\ e.email = contact_update.email
                                         /\ e.id # c.id
              /\ UpdateContactReq(token, identifier, contact_update))
             => resp'.status = 409 /\ contacts' = contacts]_vars

\* ------------------------------------------------------------ claim C16
\* C16: uniform invalid-credentials signal.  On a protected endpoint a
\* request with an expired token, a malformed token, a token signed with
\* another key, or a valid token whose subject matches no user gets one and
\* the same response: 401 with detail "Could not validate credentials".
C16_UniformInvalidCredentials ==
    ret.fn = "decode" =>
        LET token == call.token
            expired == token.wf /\ token.key = SECRET_KEY /\ token.exp < ret.at
            malformed == ~token.wf
            wrong_signature == token.wf /\ token.key # SECRET_KEY
            unknown_subject == /\ token.wf
                               /\ token.key = SECRET_KEY
                               /\ token.exp >= ret.at
                               /\ token.sub # None
                               /\ ~HasUser(users, token.sub)
        IN (expired \/ malformed \/ wrong_signature \/ unknown_subject)
           => ret.response = Resp("get_contacts", 401,
                                  "Could not validate credentials", {})

\* a valid, unexpired token whose subject matches no stored user, while
\* other users are stored, has been answered 401
C16_Witness ==
    /\ ret.fn = "decode"
    /\ call.fn = "access"
    /\ call.token.exp >= ret.at
    /\ call.sub = "test_user"
    /\ users # {}
    /\ ret.response.status = 401
    /\ ret.response.detail = "Could not validate credentials"

\* ------------------------------------------------------------ claim C17
\* C17 as stated: every call of create_user, activate_user, update_avatar,
\* create_contacts, update_contact and delete_contact performs exactly one
\* database commit, whatever its outcome.
C17_ExactlyOneCommit ==
    ret.fn \in {"create_user", "activate_user", "update_avatar",
                "create_contacts", "update_contact", "delete_contact"}
    => ret.commits = 1

\* C17, amended: no call commits more than once.  create_user, activate_user
\* and create_contacts commit exactly once; update_avatar and update_contact
\* commit once when they find their target and (update_contact) the e-mail
\* check passes, delete_contact commits once when the contact exists; a call
\* that returns or raises before its write commits nothing.
C17_OneCommitPerWrite ==
    [][ret'.fn \in {"create_user", "activate_user", "update_avatar",
                    "create_contacts", "update_contact", "delete_contact"}
       => /\ ret'.commits \in {0, 1}
          /\ ret'.fn \in {"create_user", "activate_user", "create_contacts"}
                => ret'.commits = 1
          /\ ret'.fn = "update_avatar"
                => (ret'.commits = 1 <=> HasUser(users, call'.email))
          /\ ret'.fn = "update_contact"
                => (ret'.commits = 1 <=>
                      /\ Cardinality(FindContactRows(
                             contacts, call'.owner_id, call'.identifier)) = 1
                      /\ \A c \in contacts :
                            c.email = call'.email
                            => c \in FindContactRows(contacts, call'.owner_id,
                                                     call'.identifier))
          /\ ret'.fn = "delete_contact"
                => (ret'.commits = 1 <=>
                      HasContact(contacts, call'.contact_id))
          /\ ret'.commits = 0 => contacts' = contacts /\ users' = users]_vars

\* delete_contact was called for an id that is not stored, while another
\* contact is, and made no commit
C17_Witness ==
    /\ ret.fn = "delete_contact"
    /\ ret.commits = 0
    /\ contacts # {}

\* ------------------------------------------------------------ claim C18
\* C18: role lookup is memoized for the lifetime of the process, keyed by
\* role name.  After the first get_role_by_name for a role name, every later
\* lookup of that name, from any RoleRepository (a later create_user, say),
\* returns a result already stored, without querying the database, even if
\* the role record has changed.
C18_MemoizedByName ==
    [][(/\ ret'.fn = "get_role_by_name"
        /\ \E e \in lru_cache : e.key[2] = call'.name)
       => /\ ~ret'.queried
          /\ \E e \in lru_cache : /\ e.key[2] = call'.name
                                    /\ e.result = ret'.result]_vars

\* ------------------------------------------------------------ claim C19
\* C19: find_contact, first match wins.  When several of the owner's
\* contacts satisfy the OR-ed conditions for one identifier, find_contact
\* returns one of the matching contacts rather than failing, and
\* update_contact then updates that one contact.
C19_FirstMatchWins ==
    [][LET rows == FindContactRows(contacts, call'.owner_id, call'.identifier)
       IN (/\ ret'.fn = "update_contact"
           /\ Cardinality(rows) > 1)
          => /\ find_contact(contacts, call'.owner_id,
                              call'.identifier).raised = None
             /\ find_contact(contacts, call'.owner_id,
                              call'.identifier).value # {}
             /\ find_contact(contacts, call'.owner_id,
                              call'.identifier).value \subseteq rows
             /\ ret'.raised # "MultipleResultsFound"
             /\ ret'.raised = None
                   => \E c \in rows : \E v \in ret'.value :
                         /\ v.id = c.id
                         /\ contacts' = (contacts \ {c}) \cup {v}]_vars

\* ------------------------------------------------------------ claim C20
\* C20: login.  POST /auth/token answers 201 with an access token and a
\* refresh token, both with subject equal to the user's e-mail, exactly when
\* a user with the submitted e-mail exists and the submitted password
\* verifies against its stored hash; in every other case it answers 401 and
\* issues no token.
C20_Login ==
    [][\A email \in Emails \cup {"nobody@x"} :
       \A password \in Passwords \cup {"bad"} :
          (/\ resp'.op = "login"
           /\ LoginReq(email, password))
          => LET ok == \E u \in users :
                          /\ u.email = email
                          /\ verify_password(password, u.hashed_password)
             IN /\ ok => /\ resp'.status = 201
                         /\ {i.cls : i \in resp'.body} = {"access", "refresh"}
                         /\ Cardinality(resp'.body) = 2
                         /\ \A i \in resp'.body :
                               /\ i.token.sub = email
                               /\ decode_access_token(i.token, now) =
                                      Returned(email)
                /\ ~ok => /\ resp'.status = 401
                          /\ resp'.detail = "Incorrect email or password"
                          /\ resp'.body = {}
                          /\ session' = session]_vars

\* both e-mails are registered and a login has been refused: the password
\* submitted did not verify
C20_Witness ==
    /\ resp.op = "login"
    /\ resp.status = 401
    /\ \A email \in Emails : HasUser(users, email)

\* ------------------------------------------------------------ claim C21
\* C21: verify-email answers 200 and sets is_active for exactly the user
\* whose e-mail is the token's subject, leaving every other user unchanged;
\* when the token does not decode or its subject matches no stored user it
\* answers 404 and no user changes.
C21_VerifyEmail ==
    [][\A token \in Presentable :
          (/\ resp'.op = "verify_email"
           /\ VerifyEmailReq(token))
          => LET decodes == /\ token.wf
                            /\ token.key = SECRET_KEY
                            /\ token.exp >= now
                            /\ token.sub # None
                 known == decodes /\ \E u \in users : u.email = token.sub
             IN /\ known
                   => /\ resp'.status = 200
                      /\ users' = {IF u.email = token.sub
                                   THEN [u EXCEPT !.is_active = TRUE]
                                   ELSE u : u \in users}
                /\ ~known
                   => /\ resp'.status = 404
                      /\ resp'.detail = "User not found"
                      /\ users' = users]_vars

\* two users are stored; a verify-email request has been answered 200 and
\* only the user named by its token is active
C21_Witness ==
    /\ resp.op = "verify_email"
    /\ resp.status = 200
    /\ Cardinality(users) = 2
    /\ \A token \in resp.body :
          \A u \in users : u.is_active <=> u.email = token.sub

\* ------------------------------------------------------------ claim C22
\* C22: DELETE /contacts/{contact_id} by an admin removes exactly the contact
\* with that id, whoever owns it, and answers 200; when no contact has that
\* id it answers 404 and the store is unchanged; every other contact is
\* unchanged in both cases, and a deleted id stays absent, so a second delete
\* of it answers 404.
C22_AdminDelete ==
    /\ [][\A token \in Presentable : \A contact_id \in 1..(MaxContacts + 1) :
            (/\ resp'.op = "delete_contact"
             /\ RoleChecker(users, token, now, {"admin"}).status = 200
             /\ DeleteContactReq(token, contact_id))
            => IF \E c \in contacts : c.id = contact_id
               THEN /\ resp'.status = 200
                    /\ contacts' = {c \in contacts : c.id # contact_id}
               ELSE /\ resp'.status = 404
                    /\ resp'.detail = "Contact not found"
                    /\ contacts' = contacts]_vars
    /\ [][\A contact_id \in 1..(MaxContacts + 1) :
            (contact_id < nextContactId /\ ~HasContact(contacts, contact_id))
            => ~HasContact(contacts', contact_id)]_vars

\* an admin's delete has been answered 200 and a contact of a non-admin
\* user is still stored
C22_Witness ==
    /\ resp.op = "delete_contact"
    /\ resp.status = 200
    /\ \E c \in contacts : \E u \in users :
          u.id = c.owner_id /\ RoleName(u.role_id) = "user"

\* ------------------------------------------------------------ claim C23
\* C23: PUT /contacts/{identifier} changes only a contact owned by the
\* caller.  When the identifier resolves to no contact of the caller (also
\* when it matches only a contact of another user) the answer is 404 and no
\* contact changes; on success exactly the one resolved contact changes and
\* all others are unchanged.
C23_UpdateOwnOnly ==
    [][\A token \in Presentable : \A identifier \in Identifiers :
       \A contact_update \in ContactsUpdate :
          (/\ resp'.op = "update_contact"
           /\ get_current_user(users, token, now).status = 200
           /\ UpdateContactReq(token, identifier, contact_update))
          => \A u \in get_current_user(users, token, now).user :
               LET matching ==
                     {c \in contacts :
                        \/ \E p \in IntLiterals :
                              p[1] = identifier /\ p[2] = c.id
                        \/ identifier \in {c.email, c.first_name,
                                            c.first_name \o " " \o c.last_name}}
                   own == {c \in matching : c.owner_id = u.id}
               IN /\ \A c \in contacts : c.owner_id # u.id => c \in contacts'
                  /\ own = {} => /\ resp'.status = 404
                                 /\ resp'.detail = "Contact not found"
                                 /\ contacts' = contacts
                  /\ resp'.status = 200
                       => \E c \in own : \E v \in resp'.body :
                             /\ v.id = c.id
                             /\ v.owner_id = u.id
                             /\ contacts' = (contacts \ {c}) \cup {v}
                  /\ resp'.status # 200 => contacts' = contacts]_vars

\* an update has been answered 200 while a contact of another user, still
\* as it was created, is stored
C23_Witness ==
    /\ resp.op = "update_contact"
    /\ resp.status = 200
    /\ \E v \in resp.body : \E d \in contacts :
          /\ d.owner_id # v.owner_id
          /\ d.first_name = "Ann"
          /\ v.first_name = "2"

\* ------------------------------------------------------------ claim C24
\* C24: PATCH /auth/avatar changes only the avatar field of the
\* authenticated user, and only when the image upload returned a URL (answer
\* 200); on any failure (upload error, missing URL, user not found in
\* update_avatar) the endpoint answers 500 and no user's avatar changes.
C24_Avatar ==
    [][\A token \in Presentable : \A upload \in UploadResults :
          (/\ resp'.op = "update_avatar_user"
           /\ get_current_user(users, token, now).status = 200
           /\ UpdateAvatarUserReq(token, upload))
          => \A cu \in get_current_user(users, token, now).user :
               IF /\ ~upload.raised
                  /\ upload.secure_url \in AvatarUrls
                  /\ cu \in users
               THEN /\ resp'.status = 200
                    /\ users' = {IF u.id = cu.id
                                 THEN [u EXCEPT !.avatar = upload.secure_url]
                                 ELSE u : u \in users}
               ELSE /\ resp'.status = 500
                    /\ resp'.detail = "Failed to update avatar"
                    /\ users' = users]_vars

\* two users are stored, one has the uploaded avatar and the other has none,
\* and the avatar request was answered 200
C24_Witness ==
    /\ resp.op = "update_avatar_user"
    /\ resp.status = 200
    /\ \E u \in users : u.avatar \in AvatarUrls /\ u \in resp.body
    /\ \E u \in users : u.avatar = None

\* ------------------------------------------------------------ claim C25
\* C25: token lifetimes.  A token issued without an explicit lifetime decodes
\* to its subject at every time before issue time plus its class lifetime and
\* to None at every later time; the class lifetime is 30 minutes for access
\* tokens, 7 days for refresh tokens and 24 hours for verification tokens.
\* Times are whole seconds, the unit of the exp claim.
C25_TokenLifetimes ==
    (/\ ret.fn = "decode"
     /\ call.fn \in {"access", "refresh", "verification"}
     /\ call.delta = NoDelta
     /\ call.sub # None)
    => LET lifetime == IF call.fn = "access" THEN 30 * 60
                       ELSE IF call.fn = "refresh" THEN 7 * 24 * 60 * 60
                       ELSE 24 * 60 * 60
           age == ret.at - call.at
           decoded == IF call.fn = "verification" THEN ret.verification
                      ELSE ret.access
       IN /\ age < lifetime => decoded = Returned(call.sub)
          /\ age > lifetime => decoded = Returned(None)

\* a refresh token has been decoded one second after its seven days
C25_Witness ==
    /\ ret.fn = "decode"
    /\ call.fn = "refresh"
    /\ call.delta = NoDelta
    /\ call.sub \in Emails
    /\ ret.at - call.at = 7 * 24 * 60 * 60 + 1
    /\ ret.access = Returned(None)

\* ------------------------------------------------------------ claim C26
\* C26: identifier resolution order in find_contact.  An identifier that
\* parses as an integer is matched against the contact id only; the match by
\* exact e-mail, exact first name or exact "first last" is used only when the
\* integer parse fails.  In both cases only the owner's contacts can match.
C26_ResolutionOrder ==
    [][ret'.fn = "update_contact"
       => LET identifier == call'.identifier
              owner_id == call'.owner_id
              found == find_contact(contacts, owner_id, identifier)
              parses == \E p \in IntLiterals : p[1] = identifier
              byId == {c \in contacts :
                         /\ c.owner_id = owner_id
                         /\ \E p \in IntLiterals :
                               p[1] = identifier /\ p[2] = c.id}
              byText == {c \in contacts :
                           /\ c.owner_id = owner_id
                           /\ identifier \in
                                 {c.email, c.first_name,
                                  c.first_name \o " " \o c.last_name}}
          IN /\ parses => found.raised = None /\ found.value = byId
             /\ ~parses => found.value \subseteq byText
             /\ \A c \in found.value : c.owner_id = owner_id]_vars

\* ------------------------------------------------------------ claim C27
\* C27: update_contact's e-mail check looks at the table as it is when the
\* check runs and at nothing else: a call passes it exactly when no other
\* contact holds the e-mail at that moment, whatever another call in progress
\* has already checked and not yet written.
C27_CheckThenWrite ==
    [][\A r \in Requests :
          (pc[r].at = "found" /\ pc'[r] # pc[r])
          => LET contact == CHOOSE c \in pc[r].contact : TRUE
                 email == pc[r].contact_update.email IN
             (pc'[r].at = "checked")
             <=> ~\E c \in contacts : c.email = email /\ c.id # contact.id]_vars

\* C27: two calls that set the same new e-mail on two different contacts have
\* both passed the check and neither has written
C27_Witness ==
    /\ pc[1].at = "checked" /\ pc[1].op = "update_contact"
    /\ pc[2].at = "checked" /\ pc[2].op = "update_contact"
    /\ pc[1].contact_update.email = pc[2].contact_update.email
    /\ \A c \in pc[1].contact : \A d \in pc[2].contact : c.id # d.id
    /\ ~\E c \in contacts : c.email = pc[1].contact_update.email

\* ------------------------------------------------------------ claim C28
\* C28: when two register requests for the same e-mail, not registered when
\* they arrived, have both been answered, one was answered 201 and the other
\* 409 'Email already registered', and one user holds the e-mail.
C28_OneCreatedOneConflict ==
    (/\ pc[1].at = "done" /\ pc[1].op = "register"
     /\ pc[2].at = "done" /\ pc[2].op = "register"
     /\ pc[1].email = pc[2].email
     /\ pc[1].email # "a@x")
    => /\ \E r \in Requests :
             /\ pc[r].status = 201
             /\ pc[3 - r].status = 409
             /\ pc[3 - r].raised = "Email already registered"
       /\ Cardinality(UsersByEmail(users, pc[1].email)) = 1

\* ------------------------------------------------------------ claim C29
\* C29: is_active is never consulted.  A user who is not active and gives the
\* right password is issued tokens (201), and a request carrying a token that
\* decodes to the e-mail of a user who is not active is never turned away
\* with 401 or 403 by an endpoint the user's role allows: POST /contacts/ and
\* GET /contacts/ for both roles, GET /contacts/all/ and DELETE for admin.
C29_IsActiveNotConsulted ==
    [][/\ \A u \in users, password \in Passwords :
            (/\ resp'.op = "login"
             /\ ~u.is_active
             /\ verify_password(password, u.hashed_password)
             /\ LoginReq(u.email, password))
            => resp'.status = 201 /\ session' # {}
       /\ \A token \in Presentable : \A u \in users :
            (/\ resp'.op \in {"create_contacts", "get_contacts",
                              "get_contacts_all", "delete_contact"}
             /\ ~u.is_active
             /\ ~decode_access_token(token, now).raised
             /\ decode_access_token(token, now).value = u.email)
            => /\ GetContactsReq(token) => resp'.status = 200
               /\ \A contact \in ContactsCreate :
                     CreateContactsReq(token, contact)
                     => resp'.status \notin {401, 403}
               /\ RoleName(u.role_id) = "admin"
                  => /\ GetContactsAllReq(token) => resp'.status = 200
                     /\ \A contact_id \in 1..(MaxContacts + 1) :
                           DeleteContactReq(token, contact_id)
                           => resp'.status \notin {401, 403}]_vars

\* C29: a contact has been created for a user who is still not active
C29_Witness ==
    /\ resp.op = "create_contacts"
    /\ resp.status = 201
    /\ \E c \in resp.body : \E u \in users : c.owner_id = u.id /\ ~u.is_active

\* ------------------------------------------------------------ claim C30
\* C30: year-independence of the birthday window.  For every today and N the
\* result is exactly the owner's contacts whose birthday has the month and
\* day of one of the dates today, today + 1, ..., today + N, whatever the
\* birth year; with N >= 365 that is every contact of the owner.
C30_YearIndependentWindow ==
    (ret.fn = "get_upcoming_birthdays")
    => /\ ret.result =
            {c \in contacts :
                /\ c.owner_id = call.owner_id
                /\ \E k \in 0..call.days :
                      /\ AddDays(call.today, k).m = c.birthday.m
                      /\ AddDays(call.today, k).d = c.birthday.d}
       /\ call.days >= 365
          => ret.result = {c \in contacts : c.owner_id = call.owner_id}

====
